---- MODULE Spec2Model ----
(***************************************************************************)
(* The WHILE-language front end: the scanner of lexer.py (class Lexer) and *)
(* the recursive-descent parser of parser.py (class Parser).               *)
(*                                                                         *)
(* Source text is a sequence of one-character strings.  Python values are  *)
(* carried in one record shape (PyNone, PyInt, PyStr, PyBool) so that any  *)
(* two values can be compared.  A raised exception is an outcome of the    *)
(* operator that models the method: every method returns a record with the *)
(* object's fields after the call, the exception raised (NoExc when none)  *)
(* and the returned value.                                                 *)
(***************************************************************************)
EXTENDS Integers, Sequences, FiniteSets, TLC

VARIABLES string, position, char, result,
          program, parser_position, current_token, outcome

lexer_vars == <<string, position, char, result>>
parser_vars == <<program, parser_position, current_token, outcome>>
vars == <<string, position, char, result,
          program, parser_position, current_token, outcome>>

(***************************************************************************)
(* Python values.                                                          *)
(***************************************************************************)
PyNone == [py |-> "None", int |-> 0, str |-> <<>>]
PyInt(n) == [py |-> "int", int |-> n, str |-> <<>>]
PyStr(s) == [py |-> "str", int |-> 0, str |-> s]
PyBool(b) == [py |-> "bool", int |-> IF b THEN 1 ELSE 0, str |-> <<>>]
\* The place of a value in an error message that formats none.
NoValue == [py |-> "", int |-> 0, str |-> <<>>]

\* self._char is None
NoneChar == "None"

Letters == {"a", "b", "c", "d", "e", "f", "g", "h", "i", "j", "k", "l", "m",
            "n", "o", "p", "q", "r", "s", "t", "u", "v", "w", "x", "y", "z"}
Digits == {"0", "1", "2", "3", "4", "5", "6", "7", "8", "9"}

isspace(c) == c \in {" ", "\t", "\n", "\r"}
isdigit(c) == c \in Digits
isalnum(c) == c \in Letters \cup Digits

DigitValue(c) ==
  CASE c = "0" -> 0 [] c = "1" -> 1 [] c = "2" -> 2 [] c = "3" -> 3
    [] c = "4" -> 4 [] c = "5" -> 5 [] c = "6" -> 6 [] c = "7" -> 7
    [] c = "8" -> 8 [] c = "9" -> 9

RECURSIVE DecimalValue(_)
DecimalValue(num) ==
  IF num = <<>> THEN 0
  ELSE 10 * DecimalValue(SubSeq(num, 1, Len(num) - 1)) + DigitValue(num[Len(num)])

\* int(num) of a literal made of an optional '-' and digits.
int(num) ==
  IF num[1] = "-" THEN 0 - DecimalValue(Tail(num)) ELSE DecimalValue(num)

\* string[a:b] for 0 <= a
Slice(s, a, b) ==
  LET hi == IF b < Len(s) THEN b ELSE Len(s) IN SubSeq(s, a + 1, hi)

\* Whether string[p] exists (Python accepts -len .. len-1).
IndexOk(s, p) == (0 - Len(s)) <= p /\ p < Len(s)
\* string[p]
Index(s, p) == IF p >= 0 THEN s[p + 1] ELSE s[Len(s) + p + 1]

(***************************************************************************)
(* Token                                                                   *)
(***************************************************************************)
Token(value, token_type) == [value |-> value, token_type |-> token_type]
\* The place of a token in a result that returns none.
NoToken == Token(NoValue, "")
EofToken == Token(PyNone, "EOF")

NoExc == ""

_keywords ==
  << [key |-> <<"f", "f">>, value |-> "FF"],
     [key |-> <<"t", "t">>, value |-> "TT"],
     [key |-> <<"s", "k", "i", "p">>, value |-> "SKIP"],
     [key |-> <<"i", "f">>, value |-> "IF"],
     [key |-> <<"t", "h", "e", "n">>, value |-> "THEN"],
     [key |-> <<"e", "l", "s", "e">>, value |-> "ELSE"],
     [key |-> <<"w", "h", "i", "l", "e">>, value |-> "WHILE"],
     [key |-> <<"d", "o">>, value |-> "DO"],
     [key |-> <<"e", "n", "d">>, value |-> "END"] >>

_long_operators ==
  << [key |-> <<":", "=">>, value |-> "ASSIGNMENT"],
     [key |-> <<"<", "=">>, value |-> "LESS_OR_EQUAL"],
     [key |-> <<">", "=">>, value |-> "GREATER_OR_EQUAL"] >>

_special_characters ==
  << [key |-> "+", value |-> "PLUS"],
     [key |-> "-", value |-> "MINUS"],
     [key |-> "*", value |-> "TIMES"],
     [key |-> "=", value |-> "EQUALS"],
     [key |-> "<", value |-> "LESS_THAN"],
     [key |-> ">", value |-> "GREATER_THAN"],
     [key |-> "¬", value |-> "NOT"],
     [key |-> "^", value |-> "AND"],
     [key |-> ";", value |-> "EOL"],
     [key |-> "(", value |-> "LEFT_BRACKET"],
     [key |-> ")", value |-> "RIGHT_BRACKET"] >>

\* c in self._special_characters
IsSpecial(c) == \E i \in 1..Len(_special_characters) : _special_characters[i].key = c

(***************************************************************************)
(* Lexer.  L is the object: [string, position, char].                      *)
(***************************************************************************)
LexerObj(s, p, c) == [string |-> s, position |-> p, char |-> c]

\* Lexer.__init__ (the string is not empty)
LexerInit(s) == LexerObj(s, 0, s[1])

LexReturn(L, tok) == [lexer |-> L, exc |-> NoExc, message |-> "", matched |-> TRUE, token |-> tok, chars |-> <<>>]
LexFalse(L) == [lexer |-> L, exc |-> NoExc, message |-> "", matched |-> FALSE, token |-> NoToken, chars |-> <<>>]
LexRaise(L, e, m) == [lexer |-> L, exc |-> e, message |-> m, matched |-> FALSE, token |-> NoToken, chars |-> <<>>]

_next_char(L) ==
  LET p == L.position + 1 IN
  [L EXCEPT !.position = p,
            !.char = IF p < Len(L.string) THEN L.string[p + 1] ELSE NoneChar]

_next_chars(L, i) ==
  LET p == L.position + i
      L2 == [L EXCEPT !.position = p,
                      !.char = IF p < Len(L.string) THEN L.string[p + 1] ELSE NoneChar]
  IN [LexFalse(L2) EXCEPT !.chars = Slice(L.string, L.position, p)]

_previous_chars(L, i) ==
  LET p == L.position - i IN
  IF IndexOk(L.string, p)
  THEN LexFalse([L EXCEPT !.position = p, !.char = Index(L.string, p)])
  ELSE LexRaise([L EXCEPT !.position = p], "IndexError", "string index out of range")

_match_keyword(L, keyword, token_type) ==
  LET length == Len(keyword)
      nx == _next_chars(L, length + 1)
      next_chars == nx.chars
  IN IF Slice(next_chars, 0, length) = keyword
        /\ (Len(next_chars) = length
            \/ isspace(next_chars[length + 1])
            \/ next_chars[length + 1] = ";")
     THEN LET back == _previous_chars(nx.lexer, 1) IN
          IF back.exc # NoExc THEN back
          ELSE LexReturn(back.lexer, Token(PyStr(keyword), token_type))
     ELSE LET back == _previous_chars(nx.lexer, length + 1) IN
          IF back.exc # NoExc THEN back ELSE LexFalse(back.lexer)

_match_long_operator(L, operator, token_type) ==
  LET nx == _next_chars(L, Len(operator)) IN
  IF nx.chars = operator
  THEN LexReturn(nx.lexer, Token(PyStr(operator), token_type))
  ELSE LET back == _previous_chars(nx.lexer, Len(operator)) IN
       IF back.exc # NoExc THEN back ELSE LexFalse(back.lexer)

\* while self._char.isspace(): self._next_char()
RECURSIVE RemoveWhitespace(_)
RemoveWhitespace(L) ==
  IF L.char = NoneChar
  THEN LexRaise(L, "AttributeError", "'NoneType' object has no attribute 'isspace'")
  ELSE IF isspace(L.char) THEN RemoveWhitespace(_next_char(L))
  ELSE LexFalse(L)

\* for key, value in self._keywords.items(): ... from the i-th entry on
RECURSIVE MatchKeywords(_, _)
MatchKeywords(L, i) ==
  IF i > Len(_keywords) THEN LexFalse(L)
  ELSE IF L.char = _keywords[i].key[1]
  THEN LET m == _match_keyword(L, _keywords[i].key, _keywords[i].value) IN
       IF m.exc # NoExc \/ m.matched THEN m ELSE MatchKeywords(m.lexer, i + 1)
  ELSE MatchKeywords(L, i + 1)

\* for key, value in self._long_operators.items(): ... from the i-th entry on
RECURSIVE MatchLongOperators(_, _)
MatchLongOperators(L, i) ==
  IF i > Len(_long_operators) THEN LexFalse(L)
  ELSE IF L.char = _long_operators[i].key[1]
  THEN LET m == _match_long_operator(L, _long_operators[i].key, _long_operators[i].value) IN
       IF m.exc # NoExc \/ m.matched THEN m ELSE MatchLongOperators(m.lexer, i + 1)
  ELSE MatchLongOperators(L, i + 1)

\* for key, value in self._special_characters.items(): ... from the i-th entry on
RECURSIVE MatchSpecialCharacters(_, _)
MatchSpecialCharacters(L, i) ==
  IF i > Len(_special_characters) THEN LexFalse(L)
  ELSE IF L.char = _special_characters[i].key
  THEN LexReturn(_next_char(L),
                 Token(PyStr(<<_special_characters[i].key>>), _special_characters[i].value))
  ELSE MatchSpecialCharacters(L, i + 1)

\* the loop of the integer branch, num being the characters eaten so far
RECURSIVE EatInteger(_, _)
EatInteger(L, num) ==
  IF L.char = NoneChar \/ isspace(L.char) \/ IsSpecial(L.char)
  THEN IF num = <<"-">>
       THEN LexRaise(L, "ValueError", "invalid literal for int()")
       ELSE LexReturn(L, Token(PyInt(int(num)), "INTEGER"))
  ELSE IF isdigit(L.char) THEN EatInteger(_next_char(L), Append(num, L.char))
  ELSE LexRaise(L, "SyntaxError", "Expected digit")

\* the loop of the identifier branch
RECURSIVE EatIdentifier(_, _)
EatIdentifier(L, identifier) ==
  IF L.char = NoneChar \/ isspace(L.char) \/ ~isalnum(L.char)
  THEN LexReturn(L, Token(PyStr(identifier), "IDENTIFIER"))
  ELSE EatIdentifier(_next_char(L), Append(identifier, L.char))

\* next_token after the keyword, long operator and special character tables
ScanWord(L) ==
  IF ~isalnum(L.char) THEN LexRaise(L, "SyntaxError", "Invalid character")
  ELSE IF isdigit(L.char) \/ L.char = "-"
  THEN EatInteger(_next_char(L), <<L.char>>)
  ELSE EatIdentifier(_next_char(L), <<L.char>>)

\* the end of input taken for an empty character instead of None
EofCheckEmptyString(L) == L.char = ""

\* if self._char is None
EofCheck(L) == L.char = NoneChar

next_token(L) ==
  IF EofCheck(L) THEN LexReturn(L, EofToken)
  ELSE LET ws == RemoveWhitespace(L) IN
  IF ws.exc # NoExc THEN ws
  ELSE LET kw == MatchKeywords(ws.lexer, 1) IN
  IF kw.exc # NoExc \/ kw.matched THEN kw
  ELSE LET lo == MatchLongOperators(kw.lexer, 1) IN
  IF lo.exc # NoExc \/ lo.matched THEN lo
  ELSE LET sp == MatchSpecialCharacters(lo.lexer, 1) IN
  IF sp.matched THEN sp
  ELSE ScanWord(sp.lexer)

(***************************************************************************)
(* Parser.  Syntax tree nodes.                                             *)
(***************************************************************************)
ProgramNode(statements) == [node |-> "ProgramNode", statements |-> statements]
AssignStatementNode(left, right) ==
  [node |-> "AssignStatementNode", left |-> left, right |-> right]
IfStatementNode(condition, if_body, else_body) ==
  [node |-> "IfStatementNode", condition |-> condition,
   if_body |-> if_body, else_body |-> else_body]
WhileStatementNode(condition, body) ==
  [node |-> "WhileStatementNode", condition |-> condition, body |-> body]
ArithmeticExpressionNode(left, op, right) ==
  [node |-> "ArithmeticExpressionNode", left |-> left, op |-> op, right |-> right]
IntNode(value) == [node |-> "IntNode", value |-> value]
VarNode(value) == [node |-> "VarNode", value |-> value]
BoolNode(value) == [node |-> "BoolNode", value |-> value]
NotNode(boolean) == [node |-> "NotNode", boolean |-> boolean]
ComparisonNode(left, op, right) ==
  [node |-> "ComparisonNode", left |-> left, op |-> op, right |-> right]
AndNode(left, right) == [node |-> "AndNode", left |-> left, right |-> right]
\* The place of a node in a result that returns none.
NoNode == [node |-> ""]

(***************************************************************************)
(* Parser.  P is the object: [program, position, current_token]; positions *)
(* count from 0 as in the code.                                            *)
(***************************************************************************)
ParserObj(prog, pos, tok) == [program |-> prog, position |-> pos, current_token |-> tok]

\* Parser.__init__ (the program is not empty)
ParserInit(prog) == ParserObj(prog, 0, prog[1])

PReturn(P, n) == [parser |-> P, exc |-> NoExc, message |-> "", value |-> NoValue,
                  node |-> n, token |-> NoToken, body |-> <<>>]
PReturnToken(P, t) == [parser |-> P, exc |-> NoExc, message |-> "", value |-> NoValue,
                       node |-> NoNode, token |-> t, body |-> <<>>]
\* a result that returns a list of statements
PReturnBody(P, b) == [parser |-> P, exc |-> NoExc, message |-> "", value |-> NoValue,
                      node |-> NoNode, token |-> NoToken, body |-> b]
PRaise(P, e, m, v) == [parser |-> P, exc |-> e, message |-> m, value |-> v,
                       node |-> NoNode, token |-> NoToken, body |-> <<>>]

\* An exception raised by a call leaves the caller at once; else the caller goes on with
\* what the call returned.
Try(r, K(_)) == IF r.exc # NoExc THEN r ELSE K(r)

_consume_next_token(P) ==
  LET p == P.position + 1 IN
  IF IndexOk(P.program, p)
  THEN PReturnToken([P EXCEPT !.position = p, !.current_token = Index(P.program, p)],
                    P.program[P.position + 1])
  ELSE PRaise([P EXCEPT !.position = p], "IndexError", "list index out of range", NoValue)

\* the text of the SyntaxError is error_message + ", Current token: " + value
_consume_token_type(P, token_type, error_message) ==
  IF P.current_token.token_type = token_type
  THEN _consume_next_token(P)
  ELSE PRaise(P, "SyntaxError", error_message, P.current_token.value)

RECURSIVE _parse_statement(_)
RECURSIVE _parse_arithmetic_expression(_)
RECURSIVE _parse_boolean_expression(_)

_parse_arithmetic_factor(P) ==
  Try(_consume_next_token(P), LAMBDA c :
  CASE c.token.token_type = "IDENTIFIER" -> PReturn(c.parser, VarNode(c.token.value))
    [] c.token.token_type = "INTEGER" -> PReturn(c.parser, IntNode(c.token.value))
    [] c.token.token_type = "LEFT_BRACKET" ->
         Try(_parse_arithmetic_expression(c.parser), LAMBDA expression :
         Try(_consume_token_type(expression.parser, "RIGHT_BRACKET", "Expected ')'"),
             LAMBDA r : PReturn(r.parser, expression.node)))
    [] OTHER -> PRaise(c.parser, "SyntaxError", "Unexpected token", c.token.value))

\* '+' and '-' taken at the level of '*'
TermOperatorsNoPrecedence == {"TIMES", "PLUS", "MINUS"}

\* the operators of the loop of _parse_arithmetic_term
TermOperators == {"TIMES"}

\* the loop of _parse_arithmetic_term
RECURSIVE TermLoop(_, _)
TermLoop(P, expression) ==
  IF P.current_token.token_type \in TermOperators
  THEN Try(_consume_next_token(P), LAMBDA operator :
       Try(_parse_arithmetic_factor(operator.parser), LAMBDA right :
       TermLoop(right.parser,
                ArithmeticExpressionNode(expression, operator.token.value, right.node))))
  ELSE PReturn(P, expression)

_parse_arithmetic_term(P) ==
  Try(_parse_arithmetic_factor(P), LAMBDA f : TermLoop(f.parser, f.node))

\* the loop of _parse_arithmetic_expression
RECURSIVE ExpressionLoop(_, _)
ExpressionLoop(P, expression) ==
  IF P.current_token.token_type \in {"PLUS", "MINUS"}
  THEN Try(_consume_next_token(P), LAMBDA operator :
       Try(_parse_arithmetic_term(operator.parser), LAMBDA right :
       ExpressionLoop(right.parser,
                      ArithmeticExpressionNode(expression, operator.token.value, right.node))))
  ELSE PReturn(P, expression)

_parse_arithmetic_expression(P) ==
  Try(_parse_arithmetic_term(P), LAMBDA t : ExpressionLoop(t.parser, t.node))

_parse_assign_statement(P) ==
  Try(_consume_next_token(P), LAMBDA left_token :
  Try(_consume_token_type(left_token.parser, "ASSIGNMENT", "Expected :="), LAMBDA a :
  Try(_parse_arithmetic_expression(a.parser), LAMBDA right_node :
  PReturn(right_node.parser,
          AssignStatementNode(VarNode(left_token.token.value), right_node.node)))))

ComparisonOperators ==
  {"EQUALS", "LESS_THAN", "LESS_OR_EQUAL", "GREATER_THAN", "GREATER_OR_EQUAL"}

_parse_boolean_factor(P) ==
  Try(_consume_next_token(P), LAMBDA c :
  CASE c.token.token_type \in {"TT", "FF"} ->
         PReturn(c.parser, BoolNode(PyBool(c.token.token_type = "TT")))
    [] c.token.token_type = "NOT" ->
         Try(_parse_boolean_expression(c.parser), LAMBDA expression :
         PReturn(expression.parser, NotNode(expression.node)))
    [] c.token.token_type = "LEFT_BRACKET" ->
         Try(_parse_boolean_expression(c.parser), LAMBDA expression :
         Try(_consume_token_type(expression.parser, "RIGHT_BRACKET", "Expected ')'"),
             LAMBDA r : PReturn(r.parser, expression.node)))
    [] c.token.token_type \in {"IDENTIFIER", "INTEGER"} ->
         IF c.parser.current_token.token_type
              \in ComparisonOperators \cup {"RIGHT_BRACKET"}
         THEN IF c.token.token_type = "IDENTIFIER"
              THEN PReturn(c.parser, VarNode(c.token.value))
              ELSE PReturn(c.parser, IntNode(c.token.value))
         ELSE _parse_arithmetic_expression(c.parser)
    [] OTHER -> PRaise(c.parser, "SyntaxError", "Unexpected token", c.token.value))

\* the loop of _parse_boolean_term
RECURSIVE BooleanTermLoop(_, _)
BooleanTermLoop(P, expression) ==
  IF P.current_token.token_type = "AND"
  THEN Try(_consume_next_token(P), LAMBDA c :
       Try(_parse_boolean_factor(c.parser), LAMBDA right :
       BooleanTermLoop(right.parser, AndNode(expression, right.node))))
  ELSE PReturn(P, expression)

_parse_boolean_term(P) ==
  Try(_parse_boolean_factor(P), LAMBDA f : BooleanTermLoop(f.parser, f.node))

\* the loop of _parse_boolean_expression
RECURSIVE BooleanExpressionLoop(_, _)
BooleanExpressionLoop(P, expression) ==
  IF P.current_token.token_type \in ComparisonOperators
  THEN Try(_consume_next_token(P), LAMBDA operator :
       Try(_parse_boolean_term(operator.parser), LAMBDA right :
       BooleanExpressionLoop(right.parser,
                             ComparisonNode(expression, operator.token.value, right.node))))
  ELSE PReturn(P, expression)

_parse_boolean_expression(P) ==
  Try(_parse_boolean_term(P), LAMBDA t : BooleanExpressionLoop(t.parser, t.node))

\* stmt = self._parse_statement(); self._consume_token_type(EOL, ...)
StatementAndSemicolon(P) ==
  Try(_parse_statement(P), LAMBDA stmt :
  Try(_consume_token_type(stmt.parser, "EOL", "Expected semicolon"), LAMBDA eol :
  PReturn(eol.parser, stmt.node)))

\* the first loop of _parse_if_statement
RECURSIVE IfBodyLoop(_, _)
IfBodyLoop(P, if_body) ==
  IF P.current_token.token_type # "ELSE"
  THEN IF P.current_token.token_type = "EOF"
       THEN PRaise(P, "SyntaxError", "Unexpected end of file, expected 'else'", NoValue)
       ELSE Try(StatementAndSemicolon(P), LAMBDA s :
            IfBodyLoop(s.parser, Append(if_body, s.node)))
  ELSE PReturnBody(P, if_body)

\* the second loop of _parse_if_statement without its test for the EOF token
RECURSIVE ElseBodyLoopNoEofTest(_, _)
ElseBodyLoopNoEofTest(P, else_body) ==
  IF P.current_token.token_type # "END"
  THEN Try(StatementAndSemicolon(P), LAMBDA s :
       ElseBodyLoopNoEofTest(s.parser, Append(else_body, s.node)))
  ELSE PReturnBody(P, else_body)

\* the second loop of _parse_if_statement
RECURSIVE ElseBodyLoop(_, _)
ElseBodyLoop(P, else_body) ==
  IF P.current_token.token_type # "END"
  THEN IF P.current_token.token_type = "EOF"
       THEN PRaise(P, "SyntaxError", "Unexpected end of file, expected 'end'", NoValue)
       ELSE Try(StatementAndSemicolon(P), LAMBDA s :
            ElseBodyLoop(s.parser, Append(else_body, s.node)))
  ELSE PReturnBody(P, else_body)

_parse_if_statement(P) ==
  Try(_consume_next_token(P), LAMBDA c_if :
  Try(_parse_boolean_expression(c_if.parser), LAMBDA condition :
  Try(_consume_next_token(condition.parser), LAMBDA c_then :
  Try(IfBodyLoop(c_then.parser, <<>>), LAMBDA if_body :
  Try(_consume_next_token(if_body.parser), LAMBDA c_else :
  Try(ElseBodyLoop(c_else.parser, <<>>), LAMBDA else_body :
  Try(_consume_next_token(else_body.parser), LAMBDA c_end :
  PReturn(c_end.parser,
          IfStatementNode(condition.node, if_body.body, else_body.body)))))))))

\* self._parse_while_statement(): class Parser has no attribute of this name
_parse_while_statement(P) ==
  PRaise(P, "AttributeError",
         "'Parser' object has no attribute '_parse_while_statement'", NoValue)

_parse_statement(P) ==
  CASE P.current_token.token_type = "IF" -> _parse_if_statement(P)
    [] P.current_token.token_type = "WHILE" -> _parse_while_statement(P)
    [] P.current_token.token_type = "IDENTIFIER" -> _parse_assign_statement(P)
    [] OTHER -> PRaise(P, "SyntaxError", "Unexpected token", P.current_token.value)

\* the loop of parse_program
RECURSIVE ProgramLoop(_, _)
ProgramLoop(P, statements) ==
  IF P.current_token.token_type # "EOF"
  THEN Try(StatementAndSemicolon(P), LAMBDA s :
       ProgramLoop(s.parser, Append(statements, s.node)))
  ELSE PReturn(P, ProgramNode(statements))

parse_program(P) == ProgramLoop(P, <<>>)

(***************************************************************************)
(* The driver of lexer.py: tokens are taken until the EOF token.           *)
(***************************************************************************)
RECURSIVE TokenizeLoop(_, _)
TokenizeLoop(L, tokens) ==
  LET r == next_token(L) IN
  IF r.exc # NoExc THEN [exc |-> r.exc, tokens |-> tokens]
  ELSE IF r.token.token_type = "EOF"
  THEN [exc |-> NoExc, tokens |-> Append(tokens, r.token)]
  ELSE TokenizeLoop(r.lexer, Append(tokens, r.token))

Tokenize(source) == TokenizeLoop(LexerInit(source), <<>>)

(***************************************************************************)
(* Inputs of the scanner.                                                  *)
(***************************************************************************)
\* all sequences over S of length lo..hi
SeqsOf(S, lo, hi) == UNION {[1..k -> S] : k \in lo..hi}

\* "iffy := 1;"
Src_iffy ==
  <<"i", "f", "f", "y", " ", ":", "=", " ", "1", ";">>
\* "x := 1 + 2 * 3;"
Src_precedence ==
  <<"x", " ", ":", "=", " ", "1", " ", "+", " ", "2", " ", "*", " ", "3", ";">>
\* "x := a - b - c;"
Src_left_assoc ==
  <<"x", " ", ":", "=", " ", "a", " ", "-", " ", "b", " ", "-", " ", "c", ";">>
\* "if tt then x := 1; else y := 2; end;"
Src_if ==
  <<"i", "f", " ", "t", "t", " ", "t", "h", "e", "n", " ", "x", " ", ":", "=", " ", "1", ";", " ", "e", "l", "s", "e", " ", "y", " ", ":", "=", " ", "2", ";", " ", "e", "n", "d", ";">>
\* "if tt then x := 1; else y := 2;"
Src_if_no_end ==
  <<"i", "f", " ", "t", "t", " ", "t", "h", "e", "n", " ", "x", " ", ":", "=", " ", "1", ";", " ", "e", "l", "s", "e", " ", "y", " ", ":", "=", " ", "2", ";">>
\* "if tt then x := 1;"
Src_if_no_else ==
  <<"i", "f", " ", "t", "t", " ", "t", "h", "e", "n", " ", "x", " ", ":", "=", " ", "1", ";">>
\* "if 1 <= x ^ x < 10 then x := 1; else y := 2; end;"
Src_chain ==
  <<"i", "f", " ", "1", " ", "<", "=", " ", "x", " ", "^", " ", "x", " ", "<", " ", "1", "0", " ", "t", "h", "e", "n", " ", "x", " ", ":", "=", " ", "1", ";", " ", "e", "l", "s", "e", " ", "y", " ", ":", "=", " ", "2", ";", " ", "e", "n", "d", ";">>
\* "while tt do x := 1; end;"
Src_while ==
  <<"w", "h", "i", "l", "e", " ", "t", "t", " ", "d", "o", " ", "x", " ", ":", "=", " ", "1", ";", " ", "e", "n", "d", ";">>
\* "x :="
Src_assign_cut ==
  <<"x", " ", ":", "=">>
\* "x := 1; "
Src_trailing_space ==
  <<"x", " ", ":", "=", " ", "1", ";", " ">>
\* "x := 1; end"
Src_trailing_keyword ==
  <<"x", " ", ":", "=", " ", "1", ";", " ", "e", "n", "d">>
\* "12a3"
Src_malformed_numeral ==
  <<"1", "2", "a", "3">>
\* "x := @;"
Src_unknown_character ==
  <<"x", " ", ":", "=", " ", "@", ";">>

ExampleSources ==
  {Src_iffy,
   Src_precedence,
   Src_left_assoc,
   Src_if,
   Src_if_no_end,
   Src_if_no_else,
   Src_chain,
   Src_while,
   Src_assign_cut,
   Src_trailing_space,
   Src_trailing_keyword,
   Src_malformed_numeral,
   Src_unknown_character}

\* the longest arbitrary source text
MaxLen == 4
SourceAlphabet == {"i", "f", "x", "1", " ", ";", ":", "="}
ShortSources == SeqsOf(SourceAlphabet, 1, MaxLen)

\* every keyword, after and before the texts that decide how it is scanned
KeywordPrefixes == {<<>>, <<" ">>, <<"x", " ">>, <<";">>, <<"1", "+">>}
KeywordSuffixes ==
  {<<>>, <<" ">>, <<";">>, <<"\t", "x">>, <<"x">>, <<"1">>, <<"f", "y">>, <<"(">>,
   <<":", "=", "1">>, <<" ", "x">>, <<";", "x">>, <<"+">>}
KeywordSources ==
  {pre \o _keywords[i].key \o post :
     pre \in KeywordPrefixes, i \in 1..Len(_keywords), post \in KeywordSuffixes}

Sources == ExampleSources \cup ShortSources \cup KeywordSources

(***************************************************************************)
(* The scanner as a state machine: one Lexer object, next_token() called   *)
(* again and again.  result is what the last call returned or raised.      *)
(***************************************************************************)
NoResult == [exc |-> NoExc, message |-> "", token |-> NoToken]
NoOutcome == [called |-> FALSE, exc |-> NoExc, message |-> "", value |-> NoValue,
              node |-> NoNode]

ParserIdle ==
  /\ program = <<>>
  /\ parser_position = 0
  /\ current_token = NoToken
  /\ outcome = NoOutcome

LexerIdle ==
  /\ string = <<>>
  /\ position = 0
  /\ char = NoneChar
  /\ result = NoResult

Init ==
  /\ string \in Sources
  /\ position = 0
  /\ char = string[1]
  /\ result = NoResult
  /\ ParserIdle

NextToken ==
  \E r \in {next_token(LexerObj(string, position, char))} :
  /\ position' = r.lexer.position
  /\ char' = r.lexer.char
  /\ result' = [exc |-> r.exc, message |-> r.message, token |-> r.token]
  /\ UNCHANGED <<string, program, parser_position, current_token, outcome>>

Next == NextToken

Spec == Init /\ [][Next]_vars

(***************************************************************************)
(* Properties of the scanner (checked under Spec).                         *)
(***************************************************************************)
\* the last call returned a token
Returned == result.exc = NoExc /\ result.token # NoToken

\* C1: every call of next_token() on a non-empty source returns a Token or fails
\* with a lexical error (the code raises SyntaxError for it), and fails in no
\* other way.
C1_TokenOrLexicalError ==
  /\ result.exc \in {NoExc, "SyntaxError"}
  /\ result.exc = "SyntaxError" => result.message \in {"Invalid character", "Expected digit"}

\* C2: with the cursor at end of input (char is None) a call returns the EOF
\* token and moves nothing; and once an EOF token was returned, the next call
\* returns an EOF token again and raises nothing.
C2_EofIsIdempotent ==
  [][/\ char = NoneChar =>
          /\ result'.exc = NoExc
          /\ result'.token = EofToken
          /\ position' = position
          /\ char' = NoneChar
     /\ (Returned /\ result.token.token_type = "EOF") =>
          (result'.exc = NoExc /\ result'.token.token_type = "EOF")]_vars

\* C2: the scanner went through a source and returned the EOF token at its end
C2_Witness ==
  /\ Len(string) > 1
  /\ position = Len(string)
  /\ char = NoneChar
  /\ Returned
  /\ result.token = EofToken

\* the keyword k is what the source reads at the cursor
ReadsKeyword(k) ==
  /\ position < Len(string)
  /\ char = string[position + 1]
  /\ Slice(string, position, position + Len(k)) = k
\* the character after the keyword k read at the cursor, NoneChar when there is none
Following(k) ==
  IF position + Len(k) < Len(string) THEN string[position + Len(k) + 1] ELSE NoneChar
\* the alphanumeric characters of s from index i (from 1) on
RECURSIVE AlnumRun(_, _)
AlnumRun(s, i) ==
  IF i <= Len(s) /\ isalnum(s[i]) THEN <<s[i]>> \o AlnumRun(s, i + 1) ELSE <<>>

\* C3: where the source reads a keyword k at the cursor, next_token() returns the
\* keyword token of k and leaves the cursor right after k exactly when the next
\* character is whitespace, ';' or absent; when alphanumeric characters follow k,
\* the whole alphanumeric run is returned as one IDENTIFIER token.
C3_KeywordRule ==
  [][\A i \in 1..Len(_keywords) :
       LET k == _keywords[i].key IN
       ReadsKeyword(k) =>
         /\ (/\ result'.exc = NoExc
             /\ result'.token = Token(PyStr(k), _keywords[i].value)
             /\ position' = position + Len(k))
            <=> (Following(k) = NoneChar \/ isspace(Following(k)) \/ Following(k) = ";")
         /\ isalnum(Following(k)) =>
              /\ result'.exc = NoExc
              /\ result'.token = Token(PyStr(AlnumRun(string, position + 1)), "IDENTIFIER")]_vars

(***************************************************************************)
(* Inputs of the parser: token sequences that end with the one EOF token,  *)
(* as the driver collects them from the scanner.                           *)
(***************************************************************************)
Ident(name) == Token(PyStr(<<name>>), "IDENTIFIER")
Integer(n) == Token(PyInt(n), "INTEGER")
\* the token the scanner makes of a keyword or an operator
Tk(token_type) ==
  IF \E i \in 1..Len(_keywords) : _keywords[i].value = token_type
  THEN LET i == CHOOSE i \in 1..Len(_keywords) : _keywords[i].value = token_type
       IN Token(PyStr(_keywords[i].key), token_type)
  ELSE IF \E i \in 1..Len(_long_operators) : _long_operators[i].value = token_type
  THEN LET i == CHOOSE i \in 1..Len(_long_operators) : _long_operators[i].value = token_type
       IN Token(PyStr(_long_operators[i].key), token_type)
  ELSE LET i == CHOOSE i \in 1..Len(_special_characters) :
                   _special_characters[i].value = token_type
       IN Token(PyStr(<<_special_characters[i].key>>), token_type)

ExamplePrograms == {Tokenize(s).tokens : s \in {e \in ExampleSources : Tokenize(e).exc = NoExc}}

\* the longest arbitrary token sequence (the EOF token not counted)
MaxTokens == 4
TokenAlphabet ==
  {Ident("x"), Integer(1), Tk("ASSIGNMENT"), Tk("EOL"), Tk("PLUS"), Tk("TIMES"),
   Tk("LEFT_BRACKET"), Tk("RIGHT_BRACKET"), Tk("IF"), Tk("TT"), Tk("THEN"), Tk("WHILE")}
ShortPrograms == {p \o <<EofToken>> : p \in SeqsOf(TokenAlphabet, 0, MaxTokens)}

\* one token of every kind
AllTokens ==
  {Ident("z"), Integer(7), EofToken}
    \cup {Tk(_keywords[i].value) : i \in 1..Len(_keywords)}
    \cup {Tk(_long_operators[i].value) : i \in 1..Len(_long_operators)}
    \cup {Tk(_special_characters[i].value) : i \in 1..Len(_special_characters)}

\* The places where the grammar asks for one token kind: the tokens before the
\* place, the tokens after it, the kind asked for, and the kinds the grammar
\* allows there (the kind asked for, or what goes on with the construct before).
Assign_x_1 == <<Ident("x"), Tk("ASSIGNMENT"), Integer(1)>>
Assign_y_2 == <<Ident("y"), Tk("ASSIGNMENT"), Integer(2)>>
ExpectSites ==
  { [expected |-> "ASSIGNMENT", before |-> <<Ident("x")>>,
     after |-> <<Integer(1), Tk("EOL")>>, allowed |-> {"ASSIGNMENT"}],
    [expected |-> "EOL", before |-> Assign_x_1,
     after |-> Assign_y_2 \o <<Tk("EOL")>>,
     allowed |-> {"EOL", "PLUS", "MINUS", "TIMES"}],
    [expected |-> "RIGHT_BRACKET",
     before |-> <<Ident("x"), Tk("ASSIGNMENT"), Tk("LEFT_BRACKET"), Integer(1)>>,
     after |-> <<Tk("EOL")>>, allowed |-> {"RIGHT_BRACKET", "PLUS", "MINUS", "TIMES"}],
    [expected |-> "THEN", before |-> <<Tk("IF"), Tk("TT")>>,
     after |-> Assign_x_1 \o <<Tk("EOL"), Tk("ELSE"), Tk("END"), Tk("EOL")>>,
     allowed |-> {"THEN", "AND"} \cup ComparisonOperators],
    [expected |-> "ELSE", before |-> <<Tk("IF"), Tk("TT"), Tk("THEN")>>,
     after |-> <<Tk("END"), Tk("EOL")>>,
     allowed |-> {"ELSE", "IDENTIFIER", "IF", "WHILE"}],
    [expected |-> "END", before |-> <<Tk("IF"), Tk("TT"), Tk("THEN"), Tk("ELSE")>>,
     after |-> <<Tk("EOL")>>,
     allowed |-> {"END", "IDENTIFIER", "IF", "WHILE"}] }

\* the program with token t at the place (the EOF token ends the program there)
Fill(site, t) ==
  IF t = EofToken THEN site.before \o <<EofToken>>
  ELSE site.before \o <<t>> \o site.after \o <<EofToken>>
SitePrograms == {Fill(site, t) : site \in ExpectSites, t \in AllTokens}

\* x := 1 op 2 op 3 ... ; with at most MaxOperators operators and no brackets
MaxOperators == 3
ArithmeticOperators == {Tk("PLUS"), Tk("MINUS"), Tk("TIMES")}
Chain(ops) ==
  <<Ident("x"), Tk("ASSIGNMENT"), Integer(1)>>
    \o [i \in 1..(2 * Len(ops)) |->
          IF i % 2 = 1 THEN ops[(i + 1) \div 2] ELSE Integer(i \div 2 + 1)]
    \o <<Tk("EOL"), EofToken>>
ChainPrograms == {Chain(ops) : ops \in SeqsOf(ArithmeticOperators, 0, MaxOperators)}

\* Well-formed programs, derived from the grammar.
SimpleAssigns ==
  {Assign_x_1, <<Ident("y"), Tk("ASSIGNMENT"), Ident("x"), Tk("PLUS"), Integer(1)>>}
Conditions ==
  { <<Tk("TT")>>,
    <<Tk("NOT"), Tk("FF")>>,
    <<Tk("TT"), Tk("AND"), Tk("FF")>>,
    <<Ident("x"), Tk("LESS_THAN"), Integer(1)>>,
    <<Tk("LEFT_BRACKET"), Ident("x"), Tk("LESS_THAN"), Integer(1), Tk("RIGHT_BRACKET")>> }
\* (Statement ';')* of at most two statements of S
Bodies(S) ==
  {<<>>} \cup {st \o <<Tk("EOL")>> : st \in S}
         \cup {s1 \o <<Tk("EOL")>> \o s2 \o <<Tk("EOL")>> : s1 \in {Assign_x_1}, s2 \in S}
IfStatements(C, B) ==
  {<<Tk("IF")>> \o c \o <<Tk("THEN")>> \o b1 \o <<Tk("ELSE")>> \o b2 \o <<Tk("END")>> :
     c \in C, b1 \in B, b2 \in B}
WhileStatements(C, B) ==
  {<<Tk("WHILE")>> \o c \o <<Tk("DO")>> \o b \o <<Tk("END")>> : c \in C, b \in B}
Statements ==
  SimpleAssigns \cup IfStatements(Conditions, Bodies(SimpleAssigns))
                \cup WhileStatements(Conditions, Bodies(SimpleAssigns))

\* the most top-level statements of a generated program
MaxStatements == 3
TopStatements ==
  { Assign_x_1,
    <<Tk("IF"), Tk("TT"), Tk("THEN")>> \o Assign_x_1
       \o <<Tk("EOL"), Tk("ELSE"), Tk("END")>>,
    <<Tk("IF"), Tk("LEFT_BRACKET"), Ident("x"), Tk("LESS_THAN"), Integer(1),
      Tk("RIGHT_BRACKET"), Tk("THEN"), Tk("ELSE")>> \o Assign_y_2
       \o <<Tk("EOL"), Tk("END")>>,
    <<Tk("WHILE"), Tk("TT"), Tk("DO")>> \o Assign_x_1 \o <<Tk("EOL"), Tk("END")>> }
RECURSIVE Sequence(_)
\* the statements of ss, each followed by ';'
Sequence(ss) ==
  IF ss = <<>> THEN <<>> ELSE Head(ss) \o <<Tk("EOL")>> \o Sequence(Tail(ss))
WellFormedPrograms ==
  {st \o <<Tk("EOL"), EofToken>> : st \in Statements}
    \cup {Sequence(ss) \o <<EofToken>> : ss \in SeqsOf(TopStatements, 0, MaxStatements)}

\* Nested if statements the parser accepts, to a depth of MaxNesting, and every
\* program that is one of them followed by ';' and cut off after some token.
MaxNesting == 2
RECURSIVE NestedIfs(_)
NestedIfs(d) ==
  IF d = 0 THEN {}
  ELSE IfStatements({<<Tk("TT")>>},
                    {<<>>, Assign_x_1 \o <<Tk("EOL")>>}
                      \cup {st \o <<Tk("EOL")>> : st \in NestedIfs(d - 1)})
Cuts(st) == {SubSeq(st, 1, n) \o <<EofToken>> : n \in 0..Len(st)}
CutPrograms == UNION {Cuts(st \o <<Tk("EOL")>>) : st \in NestedIfs(MaxNesting)}

\* If statements whose condition starts with an identifier or an integer:
\* "a < (2)", "a op b < (2)" and "a b < (3)" with the right operand in brackets,
\* and the same three with a bare right operand as in "x + 1 < 2", "x y < 3".
Atoms == {Ident("x"), Integer(1)}
Bracketed(t) == <<Tk("LEFT_BRACKET"), t, Tk("RIGHT_BRACKET")>>
AtomCondition(a, right) == <<a, Tk("LESS_THAN")>> \o right
ArithmeticCondition(a, op, b, right) == <<a, op, b, Tk("LESS_THAN")>> \o right
AdjacentCondition(a, b, right) == <<a, b, Tk("LESS_THAN")>> \o right
RightOperands(n) == {<<Integer(n)>>, Bracketed(Integer(n))}
FactorConditions ==
  {AtomCondition(a, r) : a \in Atoms, r \in RightOperands(2)}
    \cup {ArithmeticCondition(a, op, b, r) :
            a \in Atoms, op \in ArithmeticOperators, b \in Atoms, r \in RightOperands(2)}
    \cup {AdjacentCondition(a, b, r) : a \in Atoms, b \in Atoms, r \in RightOperands(3)}
FactorProgram(condition) ==
  <<Tk("IF")>> \o condition
    \o <<Tk("THEN")>> \o Assign_x_1 \o <<Tk("EOL"), Tk("ELSE")>>
    \o Assign_y_2 \o <<Tk("EOL"), Tk("END"), Tk("EOL"), EofToken>>
FactorPrograms == {FactorProgram(c) : c \in FactorConditions}

Programs ==
  ExamplePrograms \cup ShortPrograms \cup SitePrograms \cup ChainPrograms
    \cup WellFormedPrograms \cup CutPrograms \cup FactorPrograms

(***************************************************************************)
(* The parser as a state machine: one Parser object over a token sequence, *)
(* parse_program() called once.  outcome is what the call returned or      *)
(* raised; a SyntaxError's text is message followed by value when the code *)
(* formats a token's value into it.                                        *)
(***************************************************************************)
ParserStart ==
  /\ program \in Programs
  /\ parser_position = 0
  /\ current_token = program[1]
  /\ outcome = NoOutcome
  /\ LexerIdle

ParseProgram ==
  /\ ~outcome.called
  /\ \E r \in {parse_program(ParserObj(program, parser_position, current_token))} :
     /\ parser_position' = r.parser.position
     /\ current_token' = r.parser.current_token
     /\ outcome' = [called |-> TRUE, exc |-> r.exc, message |-> r.message,
                    value |-> r.value, node |-> r.node]
  /\ UNCHANGED <<program, string, position, char, result>>

ParserNext == ParseProgram

ParserSpec == ParserStart /\ [][ParserNext]_vars

(***************************************************************************)
(* Properties of the parser (checked under ParserSpec).                    *)
(***************************************************************************)
Accepted == outcome.called /\ outcome.exc = NoExc
Rejected(message) ==
  outcome.called /\ outcome.exc = "SyntaxError" /\ outcome.message = message

\* C4: with a token of a kind the grammar does not allow at a place where it asks
\* for ':=', ';', ')', 'then', 'else' or 'end', parse_program() fails with a
\* SyntaxError that carries the value of that token (for the EOF token, whose
\* value is None, the error may say "end of file" instead); it returns no tree.
C4_WrongTokenIsRejected ==
  outcome.called =>
    \A site \in ExpectSites : \A t \in AllTokens :
      (program = Fill(site, t) /\ t.token_type \notin site.allowed) =>
        /\ outcome.exc = "SyntaxError"
        /\ \/ outcome.value = t.value
           \/ /\ t = EofToken
              /\ outcome.message \in {"Unexpected end of file, expected 'else'",
                                      "Unexpected end of file, expected 'end'"}

\* C5: on a token sequence that ends with its one EOF token, parse_program()
\* either returns a Program node with the cursor on the EOF token or fails with
\* a SyntaxError; the cursor never leaves the sequence.
C5_ProgramOrSyntaxError ==
  /\ parser_position < Len(program)
  /\ outcome.called =>
       \/ /\ outcome.exc = NoExc
          /\ outcome.node.node = "ProgramNode"
          /\ current_token = EofToken
          /\ parser_position = Len(program) - 1
       \/ outcome.exc = "SyntaxError"

\* the node of the statement that starts with token t
StatementKind(t) ==
  CASE t.token_type = "IF" -> "IfStatementNode"
    [] t.token_type = "WHILE" -> "WhileStatementNode"
    [] OTHER -> "AssignStatementNode"
\* The kinds of the top-level statements of a well-formed program, in source
\* order: depth counts the if and while statements open at token i, and a
\* statement starts at the first token and after every ';' of depth 0.
RECURSIVE TopLevelKinds(_, _, _, _)
TopLevelKinds(tokens, i, depth, at_start) ==
  IF tokens[i] = EofToken THEN <<>>
  ELSE LET t == tokens[i].token_type
           d == IF t \in {"IF", "WHILE"} THEN depth + 1
                ELSE IF t = "END" THEN depth - 1 ELSE depth
       IN (IF depth = 0 /\ at_start THEN <<StatementKind(tokens[i])>> ELSE <<>>)
            \o TopLevelKinds(tokens, i + 1, d, t = "EOL" /\ d = 0)
NodeKinds(nodes) == [i \in 1..Len(nodes) |-> nodes[i].node]

\* C6: for a well-formed program parse_program() returns one Program node with
\* as many statements as the program has top-level statements, in source order.
C6_OneStatementPerTopLevelStatement ==
  (outcome.called /\ program \in WellFormedPrograms) =>
    /\ outcome.exc = NoExc
    /\ outcome.node.node = "ProgramNode"
    /\ NodeKinds(outcome.node.statements) = TopLevelKinds(program, 1, 0, TRUE)

\* "while tt do x := 1; end;"
WhileProgram == Tokenize(Src_while).tokens
\* C7: a well-formed program that starts with a while statement is parsed without
\* failing, its first statement becoming a WhileStatement node; for
\* "while tt do x := 1; end;" the condition is tt and the body is [x := 1].
C7_WhileStatementIsParsed ==
  (outcome.called /\ program \in WellFormedPrograms /\ program[1].token_type = "WHILE") =>
    /\ outcome.exc = NoExc
    /\ outcome.node.statements[1].node = "WhileStatementNode"
    /\ program = WhileProgram =>
         outcome.node.statements[1] =
           WhileStatementNode(
             BoolNode(PyBool(TRUE)),
             <<AssignStatementNode(VarNode(PyStr(<<"x">>)), IntNode(PyInt(1)))>>)

IsArithmetic(n, ops) == n.node = "ArithmeticExpressionNode" /\ n.op.str \in ops
\* the leaves and operators of an arithmetic tree, left to right
RECURSIVE InOrder(_)
InOrder(n) ==
  IF n.node = "ArithmeticExpressionNode"
  THEN InOrder(n.left) \o <<n.op>> \o InOrder(n.right)
  ELSE <<n.value>>
\* No '*' node has a '+' or '-' node below it, and no node has a node of its own
\* level as its right operand.
RECURSIVE PrecedenceAndLeftAssociative(_)
PrecedenceAndLeftAssociative(n) ==
  n.node = "ArithmeticExpressionNode" =>
    /\ IsArithmetic(n, {<<"*">>}) =>
         /\ ~IsArithmetic(n.left, {<<"+">>, <<"-">>})
         /\ n.right.node # "ArithmeticExpressionNode"
    /\ IsArithmetic(n, {<<"+">>, <<"-">>}) => ~IsArithmetic(n.right, {<<"+">>, <<"-">>})
    /\ PrecedenceAndLeftAssociative(n.left)
    /\ PrecedenceAndLeftAssociative(n.right)

\* "x := 1 + 2 * 3;" and "x := a - b - c;"
PrecedenceProgram == Tokenize(Src_precedence).tokens
LeftAssocProgram == Tokenize(Src_left_assoc).tokens
Var(name) == VarNode(PyStr(<<name>>))
Op(c) == PyStr(<<c>>)

\* C8: in an assignment whose right side is a bracket-free chain of operands and
\* '+', '-', '*', the tree keeps the operands in order, '*' binds tighter than '+'
\* and '-', and operators of one level associate to the left; "x := 1 + 2 * 3;"
\* gives 1 + (2 * 3) and "x := a - b - c;" gives (a - b) - c.
C8_PrecedenceAndAssociativity ==
  outcome.called =>
    /\ program \in ChainPrograms =>
         /\ outcome.exc = NoExc
         /\ Len(outcome.node.statements) = 1
         /\ outcome.node.statements[1].node = "AssignStatementNode"
         /\ InOrder(outcome.node.statements[1].right)
              = [i \in 1..(Len(program) - 4) |-> program[i + 2].value]
         /\ PrecedenceAndLeftAssociative(outcome.node.statements[1].right)
    /\ program = PrecedenceProgram =>
         outcome.node = ProgramNode(<<AssignStatementNode(Var("x"),
           ArithmeticExpressionNode(
             IntNode(PyInt(1)), Op("+"),
             ArithmeticExpressionNode(IntNode(PyInt(2)), Op("*"), IntNode(PyInt(3)))))>>)
    /\ program = LeftAssocProgram =>
         outcome.node = ProgramNode(<<AssignStatementNode(Var("x"),
           ArithmeticExpressionNode(
             ArithmeticExpressionNode(Var("a"), Op("-"), Var("b")), Op("-"), Var("c")))>>)

\* C8: "x := 1 + 2 * 3;" was parsed
C8_Witness == Accepted /\ program = PrecedenceProgram

\* "if 1 <= x ^ x < 10 then x := 1; else y := 2; end;"
ChainConditionProgram == Tokenize(Src_chain).tokens
\* C9: the condition "1 <= x ^ x < 10" of an if statement is parsed, and gives
\* And(Comparison(1, '<=', x), Comparison(x, '<', 10)).
C9_AndBindsLooserThanComparison ==
  (outcome.called /\ program = ChainConditionProgram) =>
    /\ outcome.exc = NoExc
    /\ outcome.node.statements[1].condition =
         AndNode(ComparisonNode(IntNode(PyInt(1)), PyStr(<<"<", "=">>), Var("x")),
                 ComparisonNode(Var("x"), Op("<"), IntNode(PyInt(10))))

\* The closing keywords awaited at the end of a cut-off program, innermost last:
\* 'then' opens a then-body (closed by 'else'), 'else' turns it into an else-body
\* (closed by 'end'), 'end' closes it.
RECURSIVE OpenBodies(_, _, _)
OpenBodies(tokens, i, open) ==
  IF tokens[i] = EofToken THEN open
  ELSE LET t == tokens[i].token_type IN
       OpenBodies(tokens, i + 1,
         CASE t = "THEN" -> Append(open, "else")
           [] t = "ELSE" -> [open EXCEPT ![Len(open)] = "end"]
           [] t = "END" -> SubSeq(open, 1, Len(open) - 1)
           [] OTHER -> open)
Awaited(tokens) == LET open == OpenBodies(tokens, 1, <<>>) IN open[Len(open)]
EndOfFileMessage(keyword) ==
  IF keyword = "else" THEN "Unexpected end of file, expected 'else'"
  ELSE "Unexpected end of file, expected 'end'"
\* the EOF token stands where the next statement of a body or its closing keyword is due
AtStatementBoundary(tokens) ==
  Len(tokens) > 1 /\ tokens[Len(tokens) - 1].token_type \in {"THEN", "ELSE", "EOL"}

\* "if tt then x := 1; else y := 2; end;" and the same without the final 'end'
IfProgram == Tokenize(Src_if).tokens
IfNoEndProgram == Tokenize(Src_if_no_end).tokens
IfTree ==
  ProgramNode(<<IfStatementNode(
    BoolNode(PyBool(TRUE)),
    <<AssignStatementNode(Var("x"), IntNode(PyInt(1)))>>,
    <<AssignStatementNode(Var("y"), IntNode(PyInt(2)))>>)>>)

\* C10 as stated: in a program cut off anywhere inside the then-body or the
\* else-body of an if statement, parse_program() fails with a SyntaxError that
\* names the closing keyword awaited.
C10_AnyCutNamesTheKeyword ==
  (outcome.called /\ program \in CutPrograms /\ OpenBodies(program, 1, <<>>) # <<>>) =>
    Rejected(EndOfFileMessage(Awaited(program)))

\* C10 as amended: when the program ends where the next statement of a then-body
\* or else-body, or its closing keyword, is due, parse_program() fails with a
\* SyntaxError naming 'else' for a then-body and 'end' for an else-body;
\* "if tt then x := 1; else y := 2; end;" gives one IfStatement with one
\* statement in each body, and the same text without the final 'end' fails
\* naming 'end'.
C10_CutAtStatementBoundaryNamesTheKeyword ==
  outcome.called =>
    /\ (/\ program \in CutPrograms
        /\ OpenBodies(program, 1, <<>>) # <<>>
        /\ AtStatementBoundary(program))
         => Rejected(EndOfFileMessage(Awaited(program)))
    /\ program = IfProgram => (Accepted /\ outcome.node = IfTree)
    /\ program = IfNoEndProgram => Rejected(EndOfFileMessage("end"))

\* C10: the text without the final 'end' was parsed and refused
C10_Witness ==
  /\ program = IfNoEndProgram
  /\ outcome.called
  /\ outcome.exc # NoExc
  /\ current_token = EofToken

\* the node of an identifier or integer token
Leaf(t) == IF t.token_type = "IDENTIFIER" THEN VarNode(t.value) ELSE IntNode(t.value)
\* the condition of the if statement that is the only statement of the tree
ConditionOf(node) == node.statements[1].condition

\* C11: a boolean factor that starts with an identifier or an integer is that
\* atom alone when a comparison operator or ')' follows it, and otherwise the
\* arithmetic expression that begins with that atom: "a < (2)" gives
\* Comparison(a, '<', 2), "a op b < (2)" gives
\* Comparison(ArithmeticExpr(a, op, b), '<', 2), "x + 1 < 2" gives
\* Comparison(ArithmeticExpr(x, '+', 1), '<', 2), and a condition of two adjacent
\* atoms such as "x y < 3" or "x y < (3)" is not accepted.
C11_AtomStaysInTheFactor ==
  outcome.called =>
    /\ \A a \in Atoms :
         program = FactorProgram(AtomCondition(a, Bracketed(Integer(2)))) =>
           /\ Accepted
           /\ ConditionOf(outcome.node) = ComparisonNode(Leaf(a), Op("<"), IntNode(PyInt(2)))
    /\ \A a \in Atoms, op \in ArithmeticOperators, b \in Atoms :
         program = FactorProgram(ArithmeticCondition(a, op, b, Bracketed(Integer(2)))) =>
           /\ Accepted
           /\ ConditionOf(outcome.node) =
                ComparisonNode(ArithmeticExpressionNode(Leaf(a), op.value, Leaf(b)),
                               Op("<"), IntNode(PyInt(2)))
    /\ program = FactorProgram(ArithmeticCondition(Ident("x"), Tk("PLUS"), Integer(1),
                                                   <<Integer(2)>>)) =>
         /\ Accepted
         /\ ConditionOf(outcome.node) =
              ComparisonNode(ArithmeticExpressionNode(Var("x"), Op("+"), IntNode(PyInt(1))),
                             Op("<"), IntNode(PyInt(2)))
    /\ \A a \in Atoms, b \in Atoms, r \in RightOperands(3) :
         program = FactorProgram(AdjacentCondition(a, b, r)) => ~Accepted

====
